---- MODULE Spec2Model ----
(***************************************************************************)
(* PrivacyAI: the AI Switchboard (js/ai.js) and the generative loop of the *)
(* controller (js/app.js), modelled as state machines.                     *)
(*                                                                         *)
(* Strings that the code inspects character by character (streamed chunks) *)
(* are sequences over Alphabet; strings the code only compares are TLA+    *)
(* strings.                                                                *)
(***************************************************************************)
EXTENDS Integers, Sequences, FiniteSets, TLC

(***************************************************************************)
(* Bounds of the model.                                                    *)
(***************************************************************************)
MaxChunks == 3
MaxChunkLen == 3
MaxProgressEvents == 2
MaxSessions == 2
MaxAppChunks == 1
MaxProjects == 2
MaxHistory == 2

Alphabet == {"a", "b"}

RECURSIVE StringsUpTo(_)
StringsUpTo(n) ==
    IF n = 0 THEN {<<>>}
    ELSE LET shorter == StringsUpTo(n - 1)
         IN  shorter \cup {Append(s, ch) : s \in shorter, ch \in Alphabet}

\* the chunks a host stream may deliver
Chunks == StringsUpTo(MaxChunkLen)

\* the values the host's availability()/capabilities() calls report
RawStatuses == {"readily", "after-download", "no"}

\* what a host call does: resolve with a raw status, throw, or never settle
Outcomes == RawStatuses \cup {"throw", "hang"}

\* the arguments setStrategy is called with: the registered kinds, a kind
\* nobody registered, and a property name every object inherits
Modes == {"prompt", "writer", "rewriter", "summarizer", "constructor"}

VARIABLES
    \* ---- the host environment ----
    window,         \* which capability namespaces the host exposes
    host,           \* what the host's availability calls do when invoked
    \* ---- js/ai.js AISwitchboard ----
    currentStrategy,    \* this.currentStrategy
    setStrategyArg,     \* argument of the latest setStrategy call ("none" before the first)
    setStrategyRet,     \* value the latest setStrategy call returned
    calls,          \* for each caller, its latest createSession call:
                    \*   pc        idle / awaiting / returned / threw
                    \*   provider  the provider whose createSession it executes
                    \*   result    what the call produced
                    \*   args      is options.monitor given, is monitorCallback given
                    \*   monitor   the monitor put into the host's configuration
                    \*   session   the provider that built the session it returned
                    \*   emitted   downloadprogress events the host emitted
                    \*   observed  the events that reached options.monitor
    caPc,           \* position of checkAvailability: idle / polling / awaiting / returned
    hasAI,          \* const hasAI
    attempts,       \* let attempts
    caResult,       \* value checkAvailability returned
    gdPc,           \* position of getDiagnostics
    report,         \* const report
    \* ---- js/app.js runGenerativeLoop ----
    glPc,           \* position of runGenerativeLoop: idle / streaming / done / error
    fullResponse,   \* let fullResponse
    isFirst,        \* let isFirst
    delivered,      \* the chunks the stream has yielded so far, in delivery order
    marked,         \* is the markdown library window.marked loaded
    container,      \* what responseContainer shows
    \* ---- js/app.js, the controller ----
    pc,             \* position of init and of each event handler
    loc,            \* the local variables of init and of each handler
    store,          \* the projects object store of storage
    pending,        \* the requests to the store that have not settled
    rendered,       \* the projects the list of projects shows
    currentProject, \* let currentProject
    currentSession, \* let currentSession: 0 for null, else a session of sessions
    sessions,       \* the sessions the controller has obtained
    appReady,       \* let appReady
    listeners,      \* has setupEventListeners run
    view,           \* the view UI.switchView shows
    landingState,   \* the state UI.setLandingState shows
    landingReport   \* the diagnostics report given to UI.setLandingState

envVars == <<window, host>>
switchVars == <<currentStrategy, setStrategyArg, setStrategyRet>>
csVars == <<calls>>
caVars == <<caPc, hasAI, attempts, caResult>>
gdVars == <<gdPc, report>>
appVars == <<pc, loc, store, pending, rendered, currentProject,
            currentSession, sessions,
            appReady, listeners, view, landingState, landingReport>>
streamVars == <<glPc, fullResponse, isFirst, delivered, marked, container>>

vars == <<window, host, currentStrategy, setStrategyArg, setStrategyRet,
          calls, caPc, hasAI, attempts, caResult,
          gdPc, report, glPc, fullResponse, isFirst, delivered, marked,
          container, pc, loc, store, pending, rendered, currentProject,
          currentSession,
          sessions, appReady, listeners, view, landingState, landingReport>>

(***************************************************************************)
(* The host environment.  window.ai is absent, present without a          *)
(* languageModel member, or present with one; the other namespaces are     *)
(* present or absent.  host says what each native availability call does;  *)
(* "absent" for a method the language-model factory does not have.         *)
(***************************************************************************)
Windows ==
    [ai : {"absent", "noLM", "withLM"},
     LanguageModel : BOOLEAN,
     Writer : BOOLEAN,
     Rewriter : BOOLEAN,
     Summarizer : BOOLEAN]

Hosts ==
    [availability : Outcomes \cup {"absent"},
     capabilities : Outcomes \cup {"absent"},
     writer : Outcomes,
     rewriter : Outcomes]

\* a host whose availability calls all resolve at once with 'readily'
ReadyHost ==
    [availability |-> "readily", capabilities |-> "readily",
     writer |-> "readily", rewriter |-> "readily"]

\* window.ai?.languageModel || window.LanguageModel
HasFactory(w) == w.ai = "withLM" \/ w.LanguageModel

\* the host populates a namespace after process start
HostInject ==
    /\ \/ /\ window.ai = "absent"
          /\ \E a \in {"noLM", "withLM"} : window' = [window EXCEPT !.ai = a]
       \/ /\ window.ai = "noLM"
          /\ window' = [window EXCEPT !.ai = "withLM"]
       \/ \E ns \in {"LanguageModel", "Writer", "Rewriter", "Summarizer"} :
             /\ ~window[ns]
             /\ window' = [window EXCEPT ![ns] = TRUE]
    /\ UNCHANGED <<host, switchVars, csVars, caVars, gdVars, streamVars,
                   appVars>>

(***************************************************************************)
(* AISwitchboard: the registry and setStrategy.                            *)
(***************************************************************************)
KnownKinds == {"prompt", "writer", "rewriter"}

\* this.strategies, built by the constructor
strategies ==
    [prompt |-> "ChatStrategy", writer |-> "WriterStrategy",
     rewriter |-> "RewriterStrategy"]

Providers == {strategies[k] : k \in KnownKinds}

\* this.strategies[mode]: an own key gives its provider; strategies is a
\* plain object literal, so a name defined on Object.prototype gives the
\* inherited member (for 'constructor', the function Object); any other key
\* gives undefined
StrategiesLookup(mode) ==
    IF mode \in KnownKinds THEN strategies[mode]
    ELSE IF mode = "constructor" THEN "Object"
    ELSE "undefined"

Truthy(v) == v # "undefined"

\* a setStrategy that records the call and forgets to rebind
SetStrategyKeepsBinding(mode) ==
    /\ setStrategyArg' = mode
    /\ setStrategyRet' = "undefined"
    /\ UNCHANGED <<currentStrategy, envVars, csVars, caVars, gdVars, streamVars,
                   appVars>>

\* setStrategy(mode); it has no return statement
SetStrategyBody(mode) ==
    /\ currentStrategy' =
           IF Truthy(StrategiesLookup(mode))
           THEN StrategiesLookup(mode)
           ELSE currentStrategy
    /\ setStrategyArg' = mode
    /\ setStrategyRet' = "undefined"

\* a call of setStrategy from outside the controller
SetStrategy(mode) ==
    /\ SetStrategyBody(mode)
    /\ UNCHANGED <<envVars, csVars, caVars, gdVars, streamVars,
                   appVars>>

(***************************************************************************)
(* createSession: AISwitchboard.createSession delegates to the provider    *)
(* bound at the time of the call; each provider checks its namespace and   *)
(* then awaits the host's construction.                                    *)
(***************************************************************************)
\* a createSession that lets the Writer go on without its namespace check
NamespaceErrorWriterUnchecked(provider, w) ==
    CASE provider = "ChatStrategy" ->
             IF HasFactory(w) THEN "none" ELSE "AI_FLAGS_MISSING"
      [] provider = "WriterStrategy" -> "none"
      [] provider = "RewriterStrategy" ->
             IF w.Rewriter THEN "none" ELSE "REWRITER_API_MISSING"
      [] OTHER -> "TypeError"

\* the error a provider throws before calling the host, or "none"
NamespaceError(provider, w) ==
    CASE provider = "ChatStrategy" ->
             IF HasFactory(w) THEN "none" ELSE "AI_FLAGS_MISSING"
      [] provider = "WriterStrategy" ->
             IF w.Writer THEN "none" ELSE "WRITER_API_MISSING"
      [] provider = "RewriterStrategy" ->
             IF w.Rewriter THEN "none" ELSE "REWRITER_API_MISSING"
      [] OTHER -> "TypeError"   \* createSession is not a function

\* the (loaded, total) pairs of the downloadprogress events
ProgressEvents == {<<1, 2>>, <<2, 2>>}

\* the arguments of a createSession call that the providers look at
CallArgs == [monitor : BOOLEAN, monitorCallback : BOOLEAN]

\* the call of executeCommand and runGenerativeLoop: a monitor in the options
\* and no second argument
ControllerArgs == [monitor |-> TRUE, monitorCallback |-> FALSE]

\* the monitor member of the configuration a provider hands to the host:
\* Chat forwards options.monitor only when a second argument is given too;
\* Writer and Rewriter always install their own inline monitor, which logs the
\* percentage and calls UI.showDownloadProgress when window.UI is set
MonitorFor(provider, args) ==
    IF provider = "ChatStrategy"
    THEN IF args.monitorCallback /\ args.monitor
         THEN "options.monitor" ELSE "none"
    ELSE "inline"

\* a caller that has not called createSession yet
NoCall ==
    [pc |-> "idle", provider |-> "none", result |-> "none",
     args |-> ControllerArgs, monitor |-> "none", session |-> "none",
     emitted |-> <<>>, observed |-> <<>>]

\* the latest createSession call of the first caller
csPc == calls["cmd"].pc
csProvider == calls["cmd"].provider
csResult == calls["cmd"].result
csArgs == calls["cmd"].args
csMonitor == calls["cmd"].monitor
csSession == calls["cmd"].session
emitted == calls["cmd"].emitted
observed == calls["cmd"].observed

\* caller c calls aiSwitchboard.createSession(args)
SwitchboardCreateSession(c, args) ==
    /\ calls[c].pc \in {"idle", "returned", "threw"}
    /\ calls' = [calls EXCEPT ![c] =
           IF NamespaceError(currentStrategy, window) = "none"
           THEN [pc |-> "awaiting", provider |-> currentStrategy,
                 result |-> "none", args |-> args,
                 monitor |-> MonitorFor(currentStrategy, args),
                 session |-> "none", emitted |-> <<>>, observed |-> <<>>]
           ELSE [pc |-> "threw", provider |-> currentStrategy,
                 result |-> NamespaceError(currentStrategy, window),
                 args |-> args, monitor |-> "none", session |-> "none",
                 emitted |-> <<>>, observed |-> <<>>]]

CreateSessionCall(c) ==
    /\ \E args \in CallArgs : SwitchboardCreateSession(c, args)
    /\ UNCHANGED <<envVars, switchVars, caVars, gdVars, streamVars,
                   appVars>>

\* the host emits a downloadprogress event while it constructs the session;
\* the monitor in the configuration receives it
HostDownloadProgress(c, event) ==
    /\ calls[c].pc = "awaiting"
    /\ Len(calls[c].emitted) < MaxProgressEvents
    /\ calls' = [calls EXCEPT
           ![c].emitted = Append(@, event),
           ![c].observed = IF calls[c].monitor = "options.monitor"
                           THEN Append(@, event)
                           ELSE @]
    /\ UNCHANGED <<envVars, switchVars, caVars, gdVars, streamVars,
                   appVars>>

\* a resolve that asks the Switchboard for its provider again after the await
CreateSessionResolveLate(c) ==
    /\ calls[c].pc = "awaiting"
    /\ calls' = [calls EXCEPT ![c].pc = "returned",
                              ![c].result = "session",
                              ![c].session = currentStrategy]
    /\ UNCHANGED <<envVars, switchVars, caVars, gdVars, streamVars,
                   appVars>>

\* the host's create() resolves: Chat returns the native session, Writer and
\* Rewriter wrap it in their adapter
CreateSessionResolve(c) ==
    /\ calls[c].pc = "awaiting"
    /\ calls' = [calls EXCEPT ![c].pc = "returned",
                              ![c].result = "session",
                              ![c].session = calls[c].provider]
    /\ UNCHANGED <<envVars, switchVars, caVars, gdVars, streamVars,
                   appVars>>

\* the host's create() rejects: the error propagates unchanged
CreateSessionReject(c) ==
    /\ calls[c].pc = "awaiting"
    /\ calls' = [calls EXCEPT ![c].pc = "threw",
                              ![c].result = "HOST_ERROR"]
    /\ UNCHANGED <<envVars, switchVars, caVars, gdVars, streamVars,
                   appVars>>

(***************************************************************************)
(* checkAvailability.                                                      *)
(***************************************************************************)
\* attempts < 10 in the polling loop
PollAttempts == 10

\* const hasAI = window.ai || window.LanguageModel || window.Summarizer
HasAI(w) == w.ai # "absent" \/ w.LanguageModel \/ w.Summarizer

\* the condition of the while loop
PollCondition == ~hasAI /\ attempts < PollAttempts /\ ~window.LanguageModel

CheckAvailabilityBegin ==
    /\ caPc \in {"idle", "returned"}
    /\ caPc' = "polling"
    /\ hasAI' = HasAI(window)
    /\ attempts' = 0
    /\ caResult' = "none"

\* a call of checkAvailability from outside the controller
CheckAvailabilityCall ==
    /\ CheckAvailabilityBegin
    /\ UNCHANGED <<envVars, switchVars, csVars, gdVars, streamVars,
                   appVars>>

\* one turn of the loop: await the 200 ms timer, attempts++
PollSleep ==
    /\ caPc = "polling"
    /\ PollCondition
    /\ attempts' = attempts + 1
    /\ UNCHANGED <<caPc, hasAI, caResult, envVars, switchVars, csVars,
                   gdVars, streamVars,
                   appVars>>

\* the loop ends; the code after it runs up to its await or its return
PollExit ==
    /\ caPc = "polling"
    /\ ~PollCondition
    /\ IF HasFactory(window)
       THEN IF host.availability # "absent"
            THEN /\ caPc' = "awaiting"      \* await factory.availability()
                 /\ UNCHANGED caResult
            ELSE /\ caPc' = "returned"
                 /\ caResult' = "readily"
       ELSE /\ caPc' = "returned"
            /\ caResult' = "no"
    /\ UNCHANGED <<hasAI, attempts, envVars, switchVars, csVars, gdVars,
                   streamVars,
                   appVars>>

\* factory.availability() resolves: its status is returned as it is
AvailabilityResolves ==
    /\ caPc = "awaiting"
    /\ host.availability \in RawStatuses
    /\ caPc' = "returned"
    /\ caResult' = host.availability
    /\ UNCHANGED <<hasAI, attempts, envVars, switchVars, csVars, gdVars,
                   streamVars,
                   appVars>>

\* factory.availability() throws: the catch block returns 'readily'
AvailabilityThrows ==
    /\ caPc = "awaiting"
    /\ host.availability = "throw"
    /\ caPc' = "returned"
    /\ caResult' = "readily"
    /\ UNCHANGED <<hasAI, attempts, envVars, switchVars, csVars, gdVars,
                   streamVars,
                   appVars>>

\* the steps of checkAvailability that the event loop runs once they are due
CheckAvailabilityStep ==
    PollSleep \/ PollExit \/ AvailabilityResolves \/ AvailabilityThrows

(***************************************************************************)
(* getDiagnostics.  The three guarded checks run in sequence; each of the  *)
(* operators below runs the code from one check up to the next await or    *)
(* the return, and gives the position reached and the report so far.       *)
(* The isSecure and protocol fields are copies of window properties and    *)
(* are left out of the report.                                             *)
(***************************************************************************)
NoReport ==
    [windowAI |-> FALSE, promptAPI |-> "none", writerAPI |-> "none",
     rewriterAPI |-> "none"]

\* status === 'readily' ? 'available' : status
DiagStatus(status) == IF status = "readily" THEN "available" ELSE status

CheckRewriter(rep) ==
    IF window.Rewriter
    THEN [pc |-> "awaitRewriter", report |-> rep]
    ELSE [pc |-> "returned",
          report |-> [rep EXCEPT !.rewriterAPI = "missing"]]

\* a Writer check that reports an absent namespace as simulated
CheckWriterSimulated(rep) ==
    IF window.Writer
    THEN [pc |-> "awaitWriter", report |-> rep]
    ELSE CheckRewriter([rep EXCEPT !.writerAPI = "simulated"])

CheckWriter(rep) ==
    IF window.Writer
    THEN [pc |-> "awaitWriter", report |-> rep]
    ELSE CheckRewriter([rep EXCEPT !.writerAPI = "missing"])

CheckPrompt(rep) ==
    IF HasFactory(window)
    THEN IF host.capabilities # "absent"
         THEN [pc |-> "awaitPrompt", report |-> rep]
         ELSE CheckWriter([rep EXCEPT !.promptAPI = "available"])
    ELSE CheckWriter([rep EXCEPT !.promptAPI = "missing"])

GetDiagnosticsBegin ==
    /\ gdPc \in {"idle", "returned"}
    /\ LET start ==
               [windowAI |-> (window.ai # "absent" \/ window.Writer
                              \/ window.Rewriter \/ window.LanguageModel),
                promptAPI |-> "checking...",
                writerAPI |-> "checking...",
                rewriterAPI |-> "checking..."]
           next == CheckPrompt(start)
       IN  /\ gdPc' = next.pc
           /\ report' = next.report

\* a call of getDiagnostics from outside the controller
GetDiagnosticsCall ==
    /\ GetDiagnosticsBegin
    /\ UNCHANGED <<envVars, switchVars, csVars, caVars, streamVars,
                   appVars>>

\* a getDiagnostics with one try block around the three checks: a throw in
\* the first check skips the other two
PromptCheckSettlesOneTry ==
    /\ gdPc = "awaitPrompt"
    /\ host.capabilities # "hang"
    /\ LET next == IF host.capabilities = "throw"
                   THEN [pc |-> "returned",
                         report |-> [report EXCEPT !.promptAPI = "error"]]
                   ELSE CheckWriter([report EXCEPT !.promptAPI =
                                         DiagStatus(host.capabilities)])
       IN  /\ gdPc' = next.pc
           /\ report' = next.report
    /\ UNCHANGED <<envVars, switchVars, csVars, caVars, streamVars,
                   appVars>>

\* lm.capabilities() settles: its 'available' member is recorded, or the
\* catch block records 'error'
PromptCheckSettles ==
    /\ gdPc = "awaitPrompt"
    /\ host.capabilities # "hang"
    /\ LET value == IF host.capabilities = "throw" THEN "error"
                    ELSE DiagStatus(host.capabilities)
           next == CheckWriter([report EXCEPT !.promptAPI = value])
       IN  /\ gdPc' = next.pc
           /\ report' = next.report
    /\ UNCHANGED <<envVars, switchVars, csVars, caVars, streamVars,
                   appVars>>

\* window.Writer.availability() settles
WriterCheckSettles ==
    /\ gdPc = "awaitWriter"
    /\ host.writer # "hang"
    /\ LET value == IF host.writer = "throw" THEN "error"
                    ELSE DiagStatus(host.writer)
           next == CheckRewriter([report EXCEPT !.writerAPI = value])
       IN  /\ gdPc' = next.pc
           /\ report' = next.report
    /\ UNCHANGED <<envVars, switchVars, csVars, caVars, streamVars,
                   appVars>>

\* window.Rewriter.availability() settles
RewriterCheckSettles ==
    /\ gdPc = "awaitRewriter"
    /\ host.rewriter # "hang"
    /\ LET value == IF host.rewriter = "throw" THEN "error"
                    ELSE DiagStatus(host.rewriter)
       IN  /\ gdPc' = "returned"
           /\ report' = [report EXCEPT !.rewriterAPI = value]
    /\ UNCHANGED <<envVars, switchVars, csVars, caVars, streamVars,
                   appVars>>

(***************************************************************************)
(* String.prototype.startsWith                                             *)
(***************************************************************************)
StartsWith(s, prefix) ==
    /\ Len(prefix) <= Len(s)
    /\ SubSeq(s, 1, Len(prefix)) = prefix

(***************************************************************************)
(* The body of the for-await loop of runGenerativeLoop: the value of       *)
(* fullResponse after one chunk.                                           *)
(***************************************************************************)
AccumulateAppendOnly(first, acc, chunk) ==
    IF first THEN chunk ELSE acc \o chunk

AccumulateReplaceOnly(first, acc, chunk) ==
    chunk

Accumulate(first, acc, chunk) ==
    IF first
    THEN chunk
    ELSE IF StartsWith(chunk, acc) THEN chunk ELSE acc \o chunk

\* the steps of getDiagnostics that run once the awaited check has settled
GetDiagnosticsStep ==
    PromptCheckSettles \/ WriterCheckSettles \/ RewriterCheckSettles

(***************************************************************************)
(* runGenerativeLoop, the streaming part.                                  *)
(***************************************************************************)
\* What a message container shows: the pieces of text in it, and whether
\* they are laid out as HTML elements.  A piece is the given text as it is,
\* the visible text of the markdown rendering of the given text, or the
\* error annotation.
Plain(text) == [kind |-> "plain", of |-> text]
Rendered(text) == [kind |-> "rendered", of |-> text]
ErrorAnnotation == [kind |-> "error", of |-> <<>>]

\* UI.createModelMessageContainer: an empty element
EmptyContainer == [html |-> FALSE, parts |-> <<>>]

\* UI.updateMessageContent(container, markdownText)
UpdateMessageContent(text) ==
    IF marked
    THEN [html |-> TRUE, parts |-> <<Rendered(text)>>]
    ELSE [html |-> FALSE, parts |-> <<Plain(text)>>]

\* an assignment that drops what the element held
TextContentSet(c, piece) ==
    [html |-> FALSE, parts |-> <<piece>>]

\* container.textContent += piece: the getter gives the text of everything in
\* the element, the setter puts the longer text back as one text node
TextContentAppend(c, piece) ==
    [html |-> FALSE, parts |-> Append(c.parts, piece)]

StreamIdle ==
    /\ glPc = "idle"
    /\ fullResponse = <<>>
    /\ isFirst = TRUE
    /\ delivered = <<>>
    /\ container = EmptyContainer

\* let fullResponse = ""; ... const stream = promptStreaming(input); let isFirst = true
GlBegin ==
    /\ glPc \in {"idle", "done", "error"}
    /\ glPc' = "streaming"
    /\ fullResponse' = <<>>
    /\ isFirst' = TRUE
    /\ delivered' = <<>>
    /\ container' = EmptyContainer

\* the streaming part started on its own, with a session in place
GlStart ==
    /\ GlBegin
    /\ UNCHANGED <<marked, envVars, switchVars, csVars, caVars, gdVars,
                   appVars>>

\* one iteration of for await (const chunk of stream)
GlChunk(chunk) ==
    /\ glPc = "streaming"
    /\ Len(delivered) < MaxChunks
    /\ fullResponse' = Accumulate(isFirst, fullResponse, chunk)
    /\ isFirst' = FALSE
    /\ delivered' = Append(delivered, chunk)
    /\ container' = UpdateMessageContent(fullResponse')
    /\ UNCHANGED <<glPc, marked, envVars, switchVars, csVars, caVars, gdVars,
                   appVars>>

\* the stream is exhausted: the loop ends
GlEnd ==
    /\ glPc = "streaming"
    /\ glPc' = "done"
    /\ UNCHANGED <<fullResponse, isFirst, delivered, marked, container,
                   envVars, switchVars, csVars, caVars, gdVars,
                   appVars>>

\* the host raises mid-stream: the catch block appends the error annotation
\* to the text of the container
GlThrow ==
    /\ glPc = "streaming"
    /\ glPc' = "error"
    /\ container' = TextContentAppend(container, ErrorAnnotation)
    /\ UNCHANGED <<fullResponse, isFirst, delivered, marked, envVars,
                   switchVars, csVars, caVars, gdVars,
                   appVars>>

(***************************************************************************)
(* The controller (js/app.js): init and the event handlers.  Each is a     *)
(* process that runs from one await to the next in one step.  A request to *)
(* the object store takes effect when it is made; the handler resumes in a *)
(* later step, in the order the store settles its requests.                *)
(***************************************************************************)
\* init, two invocations of executeCommand, and one invocation of each of the
\* other handlers
Procs == {"init", "cmd", "cmd2", "api", "select", "new", "delete", "settings"}

\* the invocations of executeCommand
Commands == {"cmd", "cmd2"}

\* the keys crypto.randomUUID() may produce
ProjectIds == 1..MaxProjects

\* "You are a helpful AI assistant.", the prompt of a new project
DefaultSystemPrompt == "You are a helpful AI assistant."

\* "New Chat", the name of a new project, as a text
GenericName == <<"New Chat">>

\* null / undefined
NoProject ==
    [id |-> 0, name |-> <<>>, apiMode |-> "none", systemPrompt |-> "none",
     history |-> <<>>]

\* the project refreshProjects and the new-project button create
NewProject(id) ==
    [id |-> id, name |-> GenericName, apiMode |-> "prompt",
     systemPrompt |-> DefaultSystemPrompt, history |-> <<>>]

\* the ids of the stored projects
Stored(st) == {id \in DOMAIN st : st[id] # NoProject}

\* store.getAll() orders the projects by key
First(ids) == CHOOSE id \in ids : \A other \in ids : id <= other

\* the texts of the input fields: empty, blank, and one with text
Inputs == {<<>>, <<" ">>, <<"a">>}

\* String.prototype.trim
RECURSIVE Trim(_)
Trim(s) ==
    IF s = <<>> THEN s
    ELSE IF Head(s) = " " THEN Trim(Tail(s))
    ELSE IF s[Len(s)] = " " THEN Trim(SubSeq(s, 1, Len(s) - 1))
    ELSE s

NoLocals ==
    [input |-> <<>>, value |-> "none", id |-> 0, got |-> NoProject,
     snapshot |-> {}, ret |-> "none", lret |-> "none"]

\* the view UI.switchView(mode) shows
ViewFor(mode) ==
    IF mode = "welcome" THEN "welcome"
    ELSE IF mode = "rewriter" THEN "rewriter"
    ELSE "chat"

\* the statuses init accepts
AcceptableStatuses == {"readily", "after-download", "readily (implied)"}

\* a process has been resumed by a settled promise and has not run yet: its
\* continuation runs before the next event (a click, a storage result) is
\* handled
ContinuationPending ==
    \/ pc["init"] = "checking" /\ caPc = "returned"
    \/ pc["init"] = "diagnosing" /\ gdPc = "returned"
    \/ \E c \in DOMAIN calls :
          /\ pc[c] \in {"gl_creating", "rw_creating"}
          /\ calls[c].pc \in {"returned", "threw"}
    \/ pc["cmd"] = "gl_streaming" /\ glPc \in {"done", "error"}
    \/ \E p \in Procs : pc[p] \in {"cmd_mode", "np_load"}

\* the requests to the projects store that have not settled, oldest first
Without(q, p) == SelectSeq(q, LAMBDA e : e.proc # p)

\* p makes a request to the projects store (after its previous one, if any,
\* has settled)
StorageRequest(p, write) ==
    pending' = Append(Without(pending, p), [proc |-> p, write |-> write])

\* the request of p has settled and p makes no other
StorageSettled(p) == pending' = Without(pending, p)

\* the request of p may settle: the requests to one database are served in
\* the order they were made
CanSettle(p) == pending # <<>> /\ Head(pending).proc = p

\* the ids a fresh UUID cannot collide with
IdsInUse ==
    Stored(store) \cup {currentProject.id}
        \cup {loc[p].id : p \in Procs} \cup {loc[p].got.id : p \in Procs}
        \cup UNION {loc[p].snapshot : p \in Procs}

\* p goes to label; a process that has finished forgets its locals
Goto(p, label) ==
    /\ pc' = [pc EXCEPT ![p] = label]
    /\ loc' = [loc EXCEPT ![p] = IF label \in {"idle", "done"}
                                   THEN NoLocals ELSE @]

\* refreshProjects() is called by p, which goes on at ret afterwards
RefreshProjectsBegin(p, ret) ==
    /\ pc' = [pc EXCEPT ![p] = "rp_getAll"]
    /\ loc' = [loc EXCEPT ![p].snapshot = Stored(store), ![p].ret = ret]
    /\ StorageRequest(p, FALSE)

\* refreshProjects with the list of projects at hand: loadProject of the
\* first one when there is no current project, else render and return
RefreshProjectsLoad(p, ids, st) ==
    IF currentProject = NoProject
    THEN /\ pc' = [pc EXCEPT ![p] = "lp_get"]
         /\ loc' = [loc EXCEPT ![p].got = st[First(ids)],
                               ![p].snapshot = ids,
                               ![p].lret = "rp_render"]
         /\ StorageRequest(p, FALSE)
         /\ UNCHANGED rendered
    ELSE /\ rendered' = ids
         /\ Goto(p, loc[p].ret)
         /\ StorageSettled(p)

\* init up to await aiSwitchboard.checkAvailability()
InitStart ==
    /\ pc["init"] = "start"
    /\ CheckAvailabilityBegin
    /\ view' = "welcome"
    /\ landingState' = "loading"
    /\ Goto("init", "checking")
    /\ UNCHANGED <<envVars, switchVars, csVars, gdVars, streamVars, store,
                   pending, currentProject, currentSession, sessions,
                   rendered, appReady, listeners, landingReport>>

\* an init that only takes immediate readiness
InitAfterCheckReadilyOnly ==
    /\ pc["init"] = "checking"
    /\ caPc = "returned"
    /\ IF caResult = "readily"
       THEN /\ appReady' = TRUE
            /\ landingState' = "ready"
            /\ listeners' = TRUE
            /\ RefreshProjectsBegin("init", "done")
            /\ UNCHANGED gdVars
       ELSE /\ appReady' = FALSE
            /\ GetDiagnosticsBegin
            /\ Goto("init", "diagnosing")
            /\ UNCHANGED <<landingState, listeners, pending>>
    /\ UNCHANGED <<envVars, switchVars, csVars, caVars, streamVars, store,
                   currentProject, currentSession, sessions, rendered, view,
                   landingReport>>

\* init after the availability check: ready, or on to the diagnostics
InitAfterCheck ==
    /\ pc["init"] = "checking"
    /\ caPc = "returned"
    /\ IF caResult \in AcceptableStatuses
       THEN /\ appReady' = TRUE
            /\ landingState' = "ready"
            /\ listeners' = TRUE
            /\ RefreshProjectsBegin("init", "done")
            /\ UNCHANGED gdVars
       ELSE /\ appReady' = FALSE
            /\ GetDiagnosticsBegin
            /\ Goto("init", "diagnosing")
            /\ UNCHANGED <<landingState, listeners, pending>>
    /\ UNCHANGED <<envVars, switchVars, csVars, caVars, streamVars, store,
                   currentProject, currentSession, sessions, rendered, view,
                   landingReport>>

\* init after getDiagnostics: the setup state with the report
InitAfterDiagnostics ==
    /\ pc["init"] = "diagnosing"
    /\ gdPc = "returned"
    /\ landingState' = "setup"
    /\ landingReport' = report
    /\ listeners' = TRUE
    /\ RefreshProjectsBegin("init", "done")
    /\ UNCHANGED <<envVars, switchVars, csVars, caVars, gdVars, streamVars,
                   store, currentProject, currentSession, sessions, rendered,
                   appReady, view>>

\* refreshProjects after getAllProjects: an empty store gets a default project
RefreshGotAll(p) ==
    /\ ~ContinuationPending
    /\ pc[p] = "rp_getAll"
    /\ CanSettle(p)
    /\ IF loc[p].snapshot = {}
       THEN \E id \in DOMAIN store \ IdsInUse :
               /\ store' = [store EXCEPT ![id] = NewProject(id)]
               /\ pc' = [pc EXCEPT ![p] = "rp_save"]
               /\ loc' = [loc EXCEPT ![p].snapshot = {id}]
               /\ StorageRequest(p, TRUE)
               /\ UNCHANGED rendered
       ELSE /\ RefreshProjectsLoad(p, loc[p].snapshot, store)
            /\ UNCHANGED store
    /\ UNCHANGED <<envVars, switchVars, csVars, caVars, gdVars, streamVars,
                   currentProject, currentSession, sessions, appReady,
                   listeners, view, landingState, landingReport>>

\* refreshProjects after saving the default project
RefreshSaved(p) ==
    /\ ~ContinuationPending
    /\ pc[p] = "rp_save"
    /\ CanSettle(p)
    /\ RefreshProjectsLoad(p, loc[p].snapshot, store)
    /\ UNCHANGED <<envVars, switchVars, csVars, caVars, gdVars, streamVars,
                   store, currentProject, currentSession, sessions, appReady,
                   listeners, view, landingState, landingReport>>

\* loadProject after storage.getProject(id); what follows the call depends on
\* the caller: refreshProjects renders and returns, the click handler asks
\* for the list of projects, the new-project handler is finished
LoadProjectGot(p) ==
    /\ ~ContinuationPending
    /\ pc[p] = "lp_get"
    /\ CanSettle(p)
    /\ currentProject' = loc[p].got
    /\ IF loc[p].got = NoProject
       THEN UNCHANGED <<switchVars, view, currentSession>>
       ELSE /\ view' = ViewFor(loc[p].got.apiMode)
            /\ SetStrategyBody(loc[p].got.apiMode)
            /\ currentSession' = 0
    /\ CASE loc[p].lret = "rp_render" ->
                /\ rendered' = loc[p].snapshot
                /\ Goto(p, loc[p].ret)
                /\ StorageSettled(p)
         [] loc[p].lret = "sel_render" ->
                /\ pc' = [pc EXCEPT ![p] = "sel_render"]
                /\ loc' = [loc EXCEPT ![p].snapshot = Stored(store)]
                /\ StorageRequest(p, FALSE)
                /\ UNCHANGED rendered
         [] OTHER ->
                /\ Goto(p, "idle")
                /\ StorageSettled(p)
                /\ UNCHANGED rendered
    /\ UNCHANGED <<envVars, csVars, caVars, gdVars, streamVars, store,
                   sessions, appReady, listeners, landingState,
                   landingReport>>

\* the session a provider returns for options.systemPrompt: Chat configures
\* the host with it, or with its own default when it is empty; Writer and
\* Rewriter do not look at it
SessionPrompt(provider, prompt) ==
    IF provider = "ChatStrategy"
    THEN IF prompt \in {"", "none"}
         THEN "You are a helpful assistant." ELSE prompt
    ELSE "none"

\* the session caller c has obtained from its createSession call
ObtainedSession(c) ==
    [destroyed |-> FALSE, provider |-> calls[c].session,
     systemPrompt |-> SessionPrompt(calls[c].session, loc[c].value)]

\* currentProject.history.push({ role, content })
HistoryPush(project, role, content) ==
    [project EXCEPT !.history = Append(@, [role |-> role, content |-> content])]

\* executeCommand from const mode = currentProject.apiMode up to its first
\* await or its return
CommandBody(p, input) ==
    IF currentProject = NoProject
    THEN /\ Goto(p, "idle")
         /\ StorageSettled(p)
         /\ UNCHANGED <<csVars, store, currentProject>>
    ELSE IF currentProject.apiMode = "rewriter"
    THEN IF input = <<>>
         THEN /\ Goto(p, "idle")
              /\ StorageSettled(p)
              /\ UNCHANGED <<csVars, store, currentProject>>
         ELSE IF currentSession = 0
         THEN /\ Len(sessions) < MaxSessions
              /\ SwitchboardCreateSession(p, ControllerArgs)
              /\ pc' = [pc EXCEPT ![p] = "rw_creating"]
              /\ loc' = [loc EXCEPT ![p].input = input]
              /\ StorageSettled(p)
              /\ UNCHANGED <<store, currentProject>>
         ELSE /\ pc' = [pc EXCEPT ![p] = "rw_rewriting"]
              /\ loc' = [loc EXCEPT ![p].input = input]
              /\ StorageSettled(p)
              /\ UNCHANGED <<csVars, store, currentProject>>
    ELSE IF Trim(input) = <<>>
    THEN /\ Goto(p, "idle")
         /\ StorageSettled(p)
         /\ UNCHANGED <<csVars, store, currentProject>>
    ELSE /\ p = "cmd"
         /\ Len(currentProject.history) + 2 <= MaxHistory
         /\ currentProject' = HistoryPush(currentProject, "user", Trim(input))
         /\ store' = [store EXCEPT ![currentProject.id] = currentProject']
         /\ pc' = [pc EXCEPT ![p] = "cmd_saving"]
         /\ loc' = [loc EXCEPT ![p].input = Trim(input)]
         /\ StorageRequest(p, TRUE)
         /\ UNCHANGED csVars

\* the execute button, the rewriter button or Enter
CommandStart(p, input) ==
    /\ ~ContinuationPending
    /\ listeners
    /\ pc[p] = "idle"
    /\ p = "cmd" \/ pc["cmd"] # "idle"
    /\ IF currentProject = NoProject
       THEN /\ pc' = [pc EXCEPT ![p] = "rp_getAll"]
            /\ loc' = [loc EXCEPT ![p].snapshot = Stored(store),
                                  ![p].ret = "cmd_mode",
                                  ![p].input = input]
            /\ StorageRequest(p, FALSE)
            /\ UNCHANGED <<csVars, store, currentProject>>
       ELSE CommandBody(p, input)
    /\ UNCHANGED <<envVars, switchVars, caVars, gdVars, streamVars,
                   currentSession, sessions, rendered, appReady, listeners,
                   view, landingState, landingReport>>

\* executeCommand after its refreshProjects
CommandResume(p) ==
    /\ pc[p] = "cmd_mode"
    /\ CommandBody(p, loc[p].input)
    /\ UNCHANGED <<envVars, switchVars, caVars, gdVars, streamVars,
                   currentSession, sessions, rendered, appReady, listeners,
                   view, landingState, landingReport>>

\* runGenerativeLoop up to await createSession, or to the stream
CommandSaved ==
    /\ ~ContinuationPending
    /\ pc["cmd"] = "cmd_saving"
    /\ CanSettle("cmd")
    /\ StorageSettled("cmd")
    /\ IF currentSession # 0
       THEN /\ GlBegin
            /\ Goto("cmd", "gl_streaming")
            /\ UNCHANGED <<csVars, marked>>
       ELSE IF currentProject = NoProject
       THEN /\ container' = TextContentAppend(EmptyContainer, ErrorAnnotation)
            /\ Goto("cmd", "idle")
            /\ UNCHANGED <<csVars, glPc, fullResponse, isFirst, delivered,
                           marked>>
       ELSE /\ Len(sessions) < MaxSessions
            /\ SwitchboardCreateSession("cmd", ControllerArgs)
            /\ container' = EmptyContainer
            /\ pc' = [pc EXCEPT !["cmd"] = "gl_creating"]
            /\ loc' = [loc EXCEPT !["cmd"].value = currentProject.systemPrompt]
            /\ UNCHANGED <<glPc, fullResponse, isFirst, delivered, marked>>
    /\ UNCHANGED <<envVars, switchVars, caVars, gdVars, store,
                   currentProject, currentSession, sessions, rendered,
                   appReady, listeners, view, landingState, landingReport>>

\* currentSession = await aiSwitchboard.createSession(...), then the stream
GenerativeLoopCreated ==
    /\ pc["cmd"] = "gl_creating"
    /\ csPc = "returned"
    /\ sessions' = Append(sessions, ObtainedSession("cmd"))
    /\ currentSession' = Len(sessions) + 1
    /\ GlBegin
    /\ Goto("cmd", "gl_streaming")
    /\ UNCHANGED <<envVars, switchVars, csVars, caVars, gdVars, marked, store,
                   pending, currentProject, rendered, appReady, listeners,
                   view, landingState, landingReport>>

\* createSession threw: the catch block of runGenerativeLoop
GenerativeLoopCreateFailed ==
    /\ pc["cmd"] = "gl_creating"
    /\ csPc = "threw"
    /\ container' = TextContentAppend(container, ErrorAnnotation)
    /\ Goto("cmd", "idle")
    /\ UNCHANGED <<envVars, switchVars, csVars, caVars, gdVars, glPc,
                   fullResponse, isFirst, delivered, marked, store, pending,
                   currentProject, currentSession, sessions, rendered,
                   appReady, listeners, view, landingState, landingReport>>

\* the stream has ended: the reply goes to the history of the current project,
\* which is saved
GenerativeLoopStreamEnded ==
    /\ pc["cmd"] = "gl_streaming"
    /\ glPc = "done"
    /\ IF currentProject = NoProject
       THEN /\ container' = TextContentAppend(container, ErrorAnnotation)
            /\ Goto("cmd", "idle")
            /\ UNCHANGED <<store, pending, currentProject>>
       ELSE /\ currentProject' =
                   HistoryPush(currentProject, "model", fullResponse)
            /\ store' = [store EXCEPT ![currentProject.id] = currentProject']
            /\ Goto("cmd", "gl_saving")
            /\ StorageRequest("cmd", TRUE)
            /\ UNCHANGED container
    /\ UNCHANGED <<envVars, switchVars, csVars, caVars, gdVars, glPc,
                   fullResponse, isFirst, delivered, marked, currentSession,
                   sessions, rendered, appReady, listeners, view,
                   landingState, landingReport>>

\* a catch block that records what has arrived as the reply
GenerativeLoopStreamFailedKeepsReply ==
    /\ pc["cmd"] = "gl_streaming"
    /\ glPc = "error"
    /\ currentProject' = HistoryPush(currentProject, "model", fullResponse)
    /\ Goto("cmd", "idle")
    /\ UNCHANGED <<envVars, switchVars, csVars, caVars, gdVars, streamVars,
                   store, pending, currentSession, sessions, rendered,
                   appReady, listeners, view, landingState, landingReport>>

\* the stream has failed: runGenerativeLoop returns from its catch block
GenerativeLoopStreamFailed ==
    /\ pc["cmd"] = "gl_streaming"
    /\ glPc = "error"
    /\ Goto("cmd", "idle")
    /\ UNCHANGED <<envVars, switchVars, csVars, caVars, gdVars, streamVars,
                   store, pending, currentProject, currentSession, sessions,
                   rendered, appReady, listeners, view, landingState,
                   landingReport>>

\* the reply has been saved: after the first exchange a project that still
\* has the generic name is named after the prompt and saved again
GenerativeLoopSaved ==
    /\ ~ContinuationPending
    /\ pc["cmd"] = "gl_saving"
    /\ CanSettle("cmd")
    /\ IF currentProject = NoProject
       THEN /\ container' = TextContentAppend(container, ErrorAnnotation)
            /\ Goto("cmd", "idle")
            /\ StorageSettled("cmd")
            /\ UNCHANGED <<store, currentProject>>
       ELSE IF Len(currentProject.history) = 2
               /\ currentProject.name = GenericName
       THEN /\ currentProject' =
                   [currentProject EXCEPT !.name = loc["cmd"].input]
            /\ store' = [store EXCEPT ![currentProject.id] = currentProject']
            /\ Goto("cmd", "gl_renaming")
            /\ StorageRequest("cmd", TRUE)
            /\ UNCHANGED container
       ELSE /\ Goto("cmd", "idle")
            /\ StorageSettled("cmd")
            /\ UNCHANGED <<store, currentProject, container>>
    /\ UNCHANGED <<envVars, switchVars, csVars, caVars, gdVars, glPc,
                   fullResponse, isFirst, delivered, marked, currentSession,
                   sessions, rendered, appReady, listeners, view,
                   landingState, landingReport>>

\* the renamed project has been saved: the list of projects is asked for
GenerativeLoopRenamed ==
    /\ ~ContinuationPending
    /\ pc["cmd"] = "gl_renaming"
    /\ CanSettle("cmd")
    /\ pc' = [pc EXCEPT !["cmd"] = "gl_listing"]
    /\ loc' = [loc EXCEPT !["cmd"].snapshot = Stored(store)]
    /\ StorageRequest("cmd", FALSE)
    /\ UNCHANGED <<envVars, switchVars, csVars, caVars, gdVars, streamVars,
                   store, currentProject, currentSession, sessions, rendered,
                   appReady, listeners, view, landingState, landingReport>>

\* the list of projects is rendered with the current project marked
GenerativeLoopListed ==
    /\ ~ContinuationPending
    /\ pc["cmd"] = "gl_listing"
    /\ CanSettle("cmd")
    /\ StorageSettled("cmd")
    /\ IF currentProject = NoProject
       THEN /\ container' = TextContentAppend(container, ErrorAnnotation)
            /\ UNCHANGED rendered
       ELSE /\ rendered' = loc["cmd"].snapshot
            /\ UNCHANGED container
    /\ Goto("cmd", "idle")
    /\ UNCHANGED <<envVars, switchVars, csVars, caVars, gdVars, glPc,
                   fullResponse, isFirst, delivered, marked, store,
                   currentProject, currentSession, sessions, appReady,
                   listeners, view, landingState, landingReport>>

\* rewriter mode after await createSession: on to currentSession.rewrite
RewriterCreated(p) ==
    /\ pc[p] = "rw_creating"
    /\ IF calls[p].pc = "returned"
       THEN /\ sessions' = Append(sessions, ObtainedSession(p))
            /\ currentSession' = Len(sessions) + 1
            /\ Goto(p, "rw_rewriting")
       ELSE /\ calls[p].pc = "threw"
            /\ Goto(p, "idle")
            /\ UNCHANGED <<sessions, currentSession>>
    /\ UNCHANGED <<envVars, switchVars, csVars, caVars, gdVars, streamVars,
                   store, pending, currentProject, rendered, appReady,
                   listeners, view, landingState, landingReport>>

\* currentSession.rewrite(input) settles
RewriterDone(p) ==
    /\ ~ContinuationPending
    /\ pc[p] = "rw_rewriting"
    /\ Goto(p, "idle")
    /\ UNCHANGED <<envVars, switchVars, csVars, caVars, gdVars, streamVars,
                   store, pending, currentProject, currentSession, sessions,
                   rendered, appReady, listeners, view, landingState,
                   landingReport>>

\* the change handler of the API selector up to await saveProject
ApiModeChange(value) ==
    /\ ~ContinuationPending
    /\ listeners
    /\ pc["api"] = "idle"
    /\ currentProject # NoProject
    /\ currentProject' = [currentProject EXCEPT !.apiMode = value]
    /\ store' = [store EXCEPT ![currentProject.id] = currentProject']
    /\ pc' = [pc EXCEPT !["api"] = "api_saving"]
    /\ loc' = [loc EXCEPT !["api"].value = value]
    /\ StorageRequest("api", TRUE)
    /\ UNCHANGED <<envVars, switchVars, csVars, caVars, gdVars, streamVars,
                   currentSession, sessions, rendered, appReady, listeners,
                   view, landingState, landingReport>>

\* the change handler after the save: setStrategy, switchView, session reset
ApiModeSaved ==
    /\ ~ContinuationPending
    /\ pc["api"] = "api_saving"
    /\ CanSettle("api")
    /\ StorageSettled("api")
    /\ SetStrategyBody(loc["api"].value)
    /\ view' = ViewFor(loc["api"].value)
    /\ currentSession' = 0
    /\ Goto("api", "idle")
    /\ UNCHANGED <<envVars, csVars, caVars, gdVars, streamVars, store,
                   currentProject, sessions, rendered, appReady, listeners,
                   landingState, landingReport>>

\* a click on a project of the list: loadProject(id) up to its await
SelectProject(id) ==
    /\ ~ContinuationPending
    /\ listeners
    /\ pc["select"] = "idle"
    /\ id \in rendered
    /\ pc' = [pc EXCEPT !["select"] = "lp_get"]
    /\ loc' = [loc EXCEPT !["select"].id = id,
                          !["select"].got = store[id],
                          !["select"].lret = "sel_render"]
    /\ StorageRequest("select", FALSE)
    /\ UNCHANGED <<envVars, switchVars, csVars, caVars, gdVars, streamVars,
                   store, currentProject, currentSession, sessions, rendered,
                   appReady, listeners, view, landingState, landingReport>>

\* the click handler after getAllProjects: the list is rendered
SelectRendered ==
    /\ ~ContinuationPending
    /\ pc["select"] = "sel_render"
    /\ CanSettle("select")
    /\ StorageSettled("select")
    /\ rendered' = loc["select"].snapshot
    /\ Goto("select", "idle")
    /\ UNCHANGED <<envVars, switchVars, csVars, caVars, gdVars, streamVars,
                   store, currentProject, currentSession, sessions, appReady,
                   listeners, view, landingState, landingReport>>

\* the new-project button up to await storage.getSetting
NewProjectClick ==
    /\ ~ContinuationPending
    /\ listeners
    /\ pc["new"] = "idle"
    /\ \E id \in DOMAIN store \ IdsInUse :
          /\ pc' = [pc EXCEPT !["new"] = "np_setting"]
          /\ loc' = [loc EXCEPT !["new"].id = id]
    /\ UNCHANGED <<envVars, switchVars, csVars, caVars, gdVars, streamVars,
                   store, pending, currentProject, currentSession, sessions,
                   rendered, appReady, listeners, view, landingState,
                   landingReport>>

\* the setting has arrived (no default prompt is set): the project is saved
NewProjectGotSetting ==
    /\ ~ContinuationPending
    /\ pc["new"] = "np_setting"
    /\ store' = [store EXCEPT ![loc["new"].id] = NewProject(loc["new"].id)]
    /\ pc' = [pc EXCEPT !["new"] = "np_save"]
    /\ StorageRequest("new", TRUE)
    /\ UNCHANGED <<envVars, switchVars, csVars, caVars, gdVars, streamVars,
                   loc, currentProject, currentSession, sessions, rendered,
                   appReady, listeners, view, landingState, landingReport>>

\* the project has been saved: refreshProjects
NewProjectSaved ==
    /\ ~ContinuationPending
    /\ pc["new"] = "np_save"
    /\ CanSettle("new")
    /\ RefreshProjectsBegin("new", "np_load")
    /\ UNCHANGED <<envVars, switchVars, csVars, caVars, gdVars, streamVars,
                   store, currentProject, currentSession, sessions, rendered,
                   appReady, listeners, view, landingState, landingReport>>

\* refreshProjects has returned: loadProject(p.id) up to its await
NewProjectLoad ==
    /\ pc["new"] = "np_load"
    /\ pc' = [pc EXCEPT !["new"] = "lp_get"]
    /\ loc' = [loc EXCEPT !["new"].got = store[loc["new"].id],
                          !["new"].lret = "np_done"]
    /\ StorageRequest("new", FALSE)
    /\ UNCHANGED <<envVars, switchVars, csVars, caVars, gdVars, streamVars,
                   store, currentProject, currentSession, sessions, rendered,
                   appReady, listeners, view, landingState, landingReport>>

\* the delete button of a project of the list, confirmed, up to
\* await storage.deleteProject(id)
DeleteProject(id) ==
    /\ ~ContinuationPending
    /\ listeners
    /\ pc["delete"] = "idle"
    /\ id \in rendered
    /\ store' = [store EXCEPT ![id] = NoProject]
    /\ pc' = [pc EXCEPT !["delete"] = "del_deleting"]
    /\ loc' = [loc EXCEPT !["delete"].id = id]
    /\ StorageRequest("delete", TRUE)
    /\ UNCHANGED <<envVars, switchVars, csVars, caVars, gdVars, streamVars,
                   currentProject, currentSession, sessions, rendered,
                   appReady, listeners, view, landingState, landingReport>>

\* the project has been deleted: the current project is dropped if it was
\* the one, then refreshProjects
DeleteDone ==
    /\ ~ContinuationPending
    /\ pc["delete"] = "del_deleting"
    /\ CanSettle("delete")
    /\ currentProject' = IF currentProject.id = loc["delete"].id
                         THEN NoProject ELSE currentProject
    /\ RefreshProjectsBegin("delete", "idle")
    /\ UNCHANGED <<envVars, switchVars, csVars, caVars, gdVars, streamVars,
                   store, currentSession, sessions, rendered, appReady,
                   listeners, view, landingState, landingReport>>

\* the system prompts the settings dialog may be closed with
NewPrompts == {"", "Be brief."}

\* the settings button of a project of the list up to
\* await storage.getProject(id)
SettingsClick(id) ==
    /\ ~ContinuationPending
    /\ listeners
    /\ pc["settings"] = "idle"
    /\ id \in rendered
    /\ pc' = [pc EXCEPT !["settings"] = "st_get"]
    /\ loc' = [loc EXCEPT !["settings"].got = store[id]]
    /\ StorageRequest("settings", FALSE)
    /\ UNCHANGED <<envVars, switchVars, csVars, caVars, gdVars, streamVars,
                   store, currentProject, currentSession, sessions, rendered,
                   appReady, listeners, view, landingState, landingReport>>

\* the project has arrived: the settings dialog opens, if there is a project
SettingsGot ==
    /\ ~ContinuationPending
    /\ pc["settings"] = "st_get"
    /\ CanSettle("settings")
    /\ StorageSettled("settings")
    /\ IF loc["settings"].got = NoProject
       THEN Goto("settings", "idle")
       ELSE Goto("settings", "st_modal")
    /\ UNCHANGED <<envVars, switchVars, csVars, caVars, gdVars, streamVars,
                   store, currentProject, currentSession, sessions, rendered,
                   appReady, listeners, view, landingState, landingReport>>

\* the dialog is closed with newPrompt: the callback up to await saveProject
SettingsSubmit(newPrompt) ==
    /\ ~ContinuationPending
    /\ pc["settings"] = "st_modal"
    /\ pc' = [pc EXCEPT !["settings"] = "st_saving"]
    /\ loc' = [loc EXCEPT !["settings"].got.systemPrompt = newPrompt]
    /\ store' = [store EXCEPT ![loc["settings"].got.id] = loc'["settings"].got]
    /\ StorageRequest("settings", TRUE)
    /\ UNCHANGED <<envVars, switchVars, csVars, caVars, gdVars, streamVars,
                   currentProject, currentSession, sessions, rendered,
                   appReady, listeners, view, landingState, landingReport>>

\* the project has been saved: the current project, if it is the one, gets
\* the prompt and the cached session is dropped
SettingsSaved ==
    /\ ~ContinuationPending
    /\ pc["settings"] = "st_saving"
    /\ CanSettle("settings")
    /\ StorageSettled("settings")
    /\ currentProject' =
           IF currentProject.id = loc["settings"].got.id
           THEN [currentProject EXCEPT
                    !.systemPrompt = loc["settings"].got.systemPrompt]
           ELSE currentProject
    /\ currentSession' =
           IF currentProject.id = loc["settings"].got.id
           THEN 0 ELSE currentSession
    /\ Goto("settings", "idle")
    /\ UNCHANGED <<envVars, switchVars, csVars, caVars, gdVars, streamVars,
                   store, sessions, rendered, appReady, listeners, view,
                   landingState, landingReport>>

(***************************************************************************)
(* Specifications.                                                         *)
(***************************************************************************)
\* the Switchboard as its constructor leaves it, no call made yet
SwitchboardIdle ==
    /\ currentStrategy = strategies["prompt"]
    /\ setStrategyArg = "none"
    /\ setStrategyRet = "none"
    /\ calls = [c \in {"cmd"} |-> NoCall]
    /\ caPc = "idle"
    /\ hasAI = FALSE
    /\ attempts = 0
    /\ caResult = "none"
    /\ gdPc = "idle"
    /\ report = NoReport

\* the controller before init has run, with nothing stored
ControllerIdle ==
    /\ pc = [p \in Procs |-> IF p = "init" THEN "start" ELSE "idle"]
    /\ loc = [p \in Procs |-> NoLocals]
    /\ pending = <<>>
    /\ rendered = {}
    /\ currentProject = NoProject
    /\ currentSession = 0
    /\ sessions = <<>>
    /\ appReady = FALSE
    /\ listeners = FALSE
    /\ view = "none"
    /\ landingState = "none"
    /\ landingReport = "none"

EmptyStore == [id \in ProjectIds |-> NoProject]

\* a host with every namespace in place
FullWindow ==
    [ai |-> "withLM", LanguageModel |-> TRUE, Writer |-> TRUE,
     Rewriter |-> TRUE, Summarizer |-> TRUE]

\* the Switchboard's strategy selection, session creation and diagnostics in
\* any host environment whose availability calls resolve
Init ==
    /\ window \in Windows
    /\ host = ReadyHost
    /\ SwitchboardIdle
    /\ StreamIdle
    /\ marked = FALSE
    /\ ControllerIdle
    /\ store = EmptyStore

Next ==
    \/ \E mode \in Modes : SetStrategy(mode)
    \/ \E c \in DOMAIN calls : CreateSessionCall(c)
    \/ \E c \in DOMAIN calls : CreateSessionResolve(c)
    \/ \E c \in DOMAIN calls : CreateSessionReject(c)
    \/ GetDiagnosticsCall
    \/ PromptCheckSettles
    \/ WriterCheckSettles
    \/ RewriterCheckSettles
    \/ HostInject

Spec == Init /\ [][Next]_vars

\* checkAvailability against every behaviour of the host's availability call
AvailInit ==
    /\ window \in Windows
    /\ host \in {h \in Hosts : /\ h.capabilities = "readily"
                               /\ h.writer = "readily"
                               /\ h.rewriter = "readily"}
    /\ SwitchboardIdle
    /\ StreamIdle
    /\ marked = FALSE
    /\ ControllerIdle
    /\ store = EmptyStore

AvailNext ==
    \/ \E mode \in Modes : SetStrategy(mode)
    \/ CheckAvailabilityCall
    \/ PollSleep
    \/ PollExit
    \/ AvailabilityResolves
    \/ AvailabilityThrows
    \/ HostInject

SpecAvail == AvailInit /\ [][AvailNext]_vars

\* the event loop runs every due step of checkAvailability: an expired timer
\* fires and a settled promise resumes the awaiting frame
FairSpecAvail == SpecAvail /\ WF_vars(CheckAvailabilityStep)

\* getDiagnostics against every behaviour of the three native checks
DiagInit ==
    /\ window \in Windows
    /\ host \in {h \in Hosts : h.availability = "readily"}
    /\ SwitchboardIdle
    /\ StreamIdle
    /\ marked = FALSE
    /\ ControllerIdle
    /\ store = EmptyStore

DiagNext ==
    \/ GetDiagnosticsCall
    \/ PromptCheckSettles
    \/ WriterCheckSettles
    \/ RewriterCheckSettles
    \/ HostInject

SpecDiag == DiagInit /\ [][DiagNext]_vars

\* the event loop resumes getDiagnostics whenever the check it awaits settles
FairSpecDiag == SpecDiag /\ WF_vars(GetDiagnosticsStep)

\* session creation with download progress: every provider, every shape of
\* the call, in a host that has every namespace
MonitorInit ==
    /\ window = FullWindow
    /\ host = ReadyHost
    /\ SwitchboardIdle
    /\ StreamIdle
    /\ marked = FALSE
    /\ ControllerIdle
    /\ store = EmptyStore

MonitorNext ==
    \/ \E mode \in KnownKinds : SetStrategy(mode)
    \/ \E c \in DOMAIN calls : CreateSessionCall(c)
    \/ \E c \in DOMAIN calls, event \in ProgressEvents :
          HostDownloadProgress(c, event)
    \/ \E c \in DOMAIN calls : CreateSessionResolve(c)
    \/ \E c \in DOMAIN calls : CreateSessionReject(c)

SpecMonitor == MonitorInit /\ [][MonitorNext]_vars

\* the controller: init, then commands and API-mode changes
\* in any order, on a first page load (nothing stored) in a host that exposes
\* the language model under window.LanguageModel or not at all
AppWindows ==
    {w \in Windows : w.ai = "absent" /\ ~w.Summarizer
                                     /\ w.Writer /\ w.Rewriter}

AppInit ==
    /\ window \in AppWindows
    /\ host \in {h \in Hosts : /\ h.availability \in RawStatuses
                               /\ h.capabilities = "readily"
                               /\ h.writer = "readily"
                               /\ h.rewriter = "readily"}
    /\ SwitchboardIdle
    /\ StreamIdle
    /\ marked = FALSE
    /\ ControllerIdle
    /\ store = [id \in {1} |-> NoProject]

\* the chunks the streams of the controller deliver
AppChunks == {<<"a">>}

\* one iteration of the loop in a stream of at most MaxAppChunks chunks
AppChunk(chunk) ==
    /\ Len(delivered) < MaxAppChunks
    /\ GlChunk(chunk)

AppNext ==
    \/ InitStart
    \/ PollSleep
    \/ PollExit
    \/ AvailabilityResolves
    \/ InitAfterCheck
    \/ PromptCheckSettles
    \/ WriterCheckSettles
    \/ RewriterCheckSettles
    \/ InitAfterDiagnostics
    \/ \E p \in Procs : RefreshGotAll(p)
    \/ \E p \in Procs : RefreshSaved(p)
    \/ \E p \in Procs : LoadProjectGot(p)
    \/ \E p \in DOMAIN calls, input \in Inputs : CommandStart(p, input)
    \/ \E p \in DOMAIN calls : CommandResume(p)
    \/ CommandSaved
    \/ \E c \in DOMAIN calls : CreateSessionResolve(c)
    \/ \E c \in DOMAIN calls : CreateSessionReject(c)
    \/ GenerativeLoopCreated
    \/ GenerativeLoopCreateFailed
    \/ \E chunk \in AppChunks : AppChunk(chunk)
    \/ GlEnd
    \/ GlThrow
    \/ GenerativeLoopStreamEnded
    \/ GenerativeLoopStreamFailed
    \/ GenerativeLoopSaved
    \/ GenerativeLoopRenamed
    \/ GenerativeLoopListed
    \/ \E p \in DOMAIN calls : RewriterCreated(p)
    \/ \E p \in DOMAIN calls : RewriterDone(p)
    \/ \E value \in KnownKinds : ApiModeChange(value)
    \/ ApiModeSaved

SpecApp == AppInit /\ [][AppNext]_vars

\* the controller in a host that has every namespace and answers 'readily',
\* on a first page load
ReadyInit ==
    /\ window = FullWindow
    /\ host = ReadyHost
    /\ SwitchboardIdle
    /\ StreamIdle
    /\ marked = FALSE
    /\ ControllerIdle
    /\ store = EmptyStore

\* the list of projects: init, then the new-project button and the select
\* and delete clicks on the projects of the list, in any order
ProjectsNext ==
    \/ InitStart
    \/ PollExit
    \/ AvailabilityResolves
    \/ InitAfterCheck
    \/ \E p \in Procs : RefreshGotAll(p)
    \/ \E p \in Procs : RefreshSaved(p)
    \/ \E p \in Procs : LoadProjectGot(p)
    \/ NewProjectClick
    \/ NewProjectGotSetting
    \/ NewProjectSaved
    \/ NewProjectLoad
    \/ \E id \in ProjectIds : SelectProject(id)
    \/ SelectRendered
    \/ \E id \in ProjectIds : DeleteProject(id)
    \/ DeleteDone

SpecProjects == ReadyInit /\ [][ProjectsNext]_vars

\* a later page load: the store holds fresh projects
HistoryInit ==
    /\ window = FullWindow
    /\ host = ReadyHost
    /\ SwitchboardIdle
    /\ StreamIdle
    /\ marked = FALSE
    /\ ControllerIdle
    /\ store = [id \in ProjectIds |-> NewProject(id)]

\* chat commands and the list of projects: init, then commands, streams and
\* select and delete clicks, in any order
HistoryNext ==
    \/ InitStart
    \/ PollExit
    \/ AvailabilityResolves
    \/ InitAfterCheck
    \/ \E p \in Procs : RefreshGotAll(p)
    \/ \E p \in Procs : RefreshSaved(p)
    \/ \E p \in Procs : LoadProjectGot(p)
    \/ \E p \in DOMAIN calls, input \in Inputs : CommandStart(p, input)
    \/ \E p \in DOMAIN calls : CommandResume(p)
    \/ CommandSaved
    \/ \E c \in DOMAIN calls : CreateSessionResolve(c)
    \/ \E c \in DOMAIN calls : CreateSessionReject(c)
    \/ GenerativeLoopCreated
    \/ GenerativeLoopCreateFailed
    \/ \E chunk \in AppChunks : AppChunk(chunk)
    \/ GlEnd
    \/ GlThrow
    \/ GenerativeLoopStreamEnded
    \/ GenerativeLoopStreamFailed
    \/ GenerativeLoopSaved
    \/ GenerativeLoopRenamed
    \/ GenerativeLoopListed
    \/ \E id \in ProjectIds : SelectProject(id)
    \/ SelectRendered
    \/ \E id \in ProjectIds : DeleteProject(id)
    \/ DeleteDone

SpecHistory == HistoryInit /\ [][HistoryNext]_vars

\* a later page load with one project in rewriter mode, and two command
\* handlers that may overlap
OverlapInit ==
    /\ window = FullWindow
    /\ host = ReadyHost
    /\ currentStrategy = strategies["prompt"]
    /\ setStrategyArg = "none"
    /\ setStrategyRet = "none"
    /\ calls = [c \in Commands |-> NoCall]
    /\ caPc = "idle"
    /\ hasAI = FALSE
    /\ attempts = 0
    /\ caResult = "none"
    /\ gdPc = "idle"
    /\ report = NoReport
    /\ StreamIdle
    /\ marked = FALSE
    /\ ControllerIdle
    /\ store = [id \in {1} |-> [NewProject(id) EXCEPT !.apiMode = "rewriter"]]

\* the rewriter button once init has finished
OverlapCommand(p, input) ==
    /\ pc["init"] = "done"
    /\ CommandStart(p, input)

\* init, then rewriter commands that may overlap; the configuration does not
\* change after init
OverlapNext ==
    \/ InitStart
    \/ PollExit
    \/ AvailabilityResolves
    \/ InitAfterCheck
    \/ \E p \in Procs : RefreshGotAll(p)
    \/ \E p \in Procs : LoadProjectGot(p)
    \/ \E p \in Commands, input \in Inputs : OverlapCommand(p, input)
    \/ \E c \in Commands : CreateSessionResolve(c)
    \/ \E c \in Commands : CreateSessionReject(c)
    \/ \E p \in Commands : RewriterCreated(p)
    \/ \E p \in Commands : RewriterDone(p)

SpecOverlap == OverlapInit /\ [][OverlapNext]_vars

\* chat commands and the settings dialog: init, then commands, streams and
\* changes of the system prompt, in any order, on a first page load
SettingsNext ==
    \/ InitStart
    \/ PollExit
    \/ AvailabilityResolves
    \/ InitAfterCheck
    \/ \E p \in Procs : RefreshGotAll(p)
    \/ \E p \in Procs : RefreshSaved(p)
    \/ \E p \in Procs : LoadProjectGot(p)
    \/ \E p \in DOMAIN calls, input \in Inputs : CommandStart(p, input)
    \/ \E p \in DOMAIN calls : CommandResume(p)
    \/ CommandSaved
    \/ \E c \in DOMAIN calls : CreateSessionResolve(c)
    \/ \E c \in DOMAIN calls : CreateSessionReject(c)
    \/ GenerativeLoopCreated
    \/ GenerativeLoopCreateFailed
    \/ \E chunk \in AppChunks : AppChunk(chunk)
    \/ GlEnd
    \/ GlThrow
    \/ GenerativeLoopStreamEnded
    \/ GenerativeLoopStreamFailed
    \/ GenerativeLoopSaved
    \/ GenerativeLoopRenamed
    \/ GenerativeLoopListed
    \/ \E id \in ProjectIds : SettingsClick(id)
    \/ SettingsGot
    \/ \E newPrompt \in NewPrompts : SettingsSubmit(newPrompt)
    \/ SettingsSaved

SpecSettings == ReadyInit /\ [][SettingsNext]_vars

\* the streaming loop against every chunk sequence within the bounds
StreamInit ==
    /\ window = FullWindow
    /\ host = ReadyHost
    /\ SwitchboardIdle
    /\ StreamIdle
    /\ marked \in BOOLEAN
    /\ ControllerIdle
    /\ store = EmptyStore

StreamNext ==
    \/ GlStart
    \/ \E chunk \in Chunks : GlChunk(chunk)
    \/ GlEnd
    \/ GlThrow

SpecStream == StreamInit /\ [][StreamNext]_vars

(***************************************************************************)
(* Delivery styles.                                                        *)
(***************************************************************************)
RECURSIVE Concat(_)
Concat(seq) ==
    IF seq = <<>> THEN <<>> ELSE Head(seq) \o Concat(Tail(seq))

\* replace semantics: every chunk is the full response so far
IsReplaceDelivery(seq) ==
    \A i \in 2..Len(seq) : StartsWith(seq[i], seq[i - 1])

\* pure append semantics: no chunk after the first starts with the text
\* accumulated before it
IsAppendDelivery(seq) ==
    \A i \in 2..Len(seq) : ~StartsWith(seq[i], Concat(SubSeq(seq, 1, i - 1)))

\* C1: when a non-empty stream delivered in replace semantics ends, the
\* accumulated text is exactly the final chunk.
ReplaceYieldsFinalChunk ==
    (glPc = "done" /\ delivered # <<>> /\ IsReplaceDelivery(delivered))
        => fullResponse = delivered[Len(delivered)]

ReplaceWitness ==
    /\ glPc = "done"
    /\ Len(delivered) = 3
    /\ IsReplaceDelivery(delivered)
    /\ Len(delivered[1]) < Len(delivered[2])
    /\ Len(delivered[2]) < Len(delivered[3])

\* C2: when a stream delivered in pure append semantics ends, the accumulated
\* text is the concatenation of all chunks in delivery order.
AppendYieldsConcatenation ==
    (glPc = "done" /\ IsAppendDelivery(delivered))
        => fullResponse = Concat(delivered)

AppendWitness ==
    /\ glPc = "done"
    /\ Len(delivered) = 3
    /\ IsAppendDelivery(delivered)
    /\ \A i \in 1..3 : delivered[i] # <<>>

(***************************************************************************)
(* Properties of the Switchboard.                                          *)
(***************************************************************************)
\* C3: checkAvailability always returns: a call that has started polling or
\* is awaiting the host's availability check eventually returns, also when
\* the host's call never settles.
CheckAvailabilityAlwaysReturns ==
    (caPc \in {"polling", "awaiting"}) ~> (caPc = "returned")

\* C4: setStrategy with a kind that is not registered leaves the active
\* provider as it was.
UnknownKindKeepsProvider ==
    [][\A mode \in Modes \ KnownKinds :
          SetStrategy(mode) => currentStrategy' = currentStrategy]_vars

\* C5: the value setStrategy returns for an unknown kind differs from the
\* value it returns for a known kind: of two consecutive calls, one with a
\* known and one with an unknown kind, the returned values differ.
SetStrategyReportsFailure ==
    [][\A before, mode \in Modes :
          (/\ setStrategyArg = before
           /\ SetStrategy(mode)
           /\ (before \in KnownKinds) # (mode \in KnownKinds))
          => setStrategyRet' # setStrategyRet]_vars

\* C6: a createSession call that follows setStrategy(kind) with a known kind
\* is executed by the provider registered for that kind.
CreateSessionRoutesToSetKind ==
    [][(CreateSessionCall("cmd") /\ setStrategyArg \in KnownKinds)
          => csProvider' = strategies[setStrategyArg]]_vars

RoutesWitness ==
    /\ setStrategyArg = "rewriter"
    /\ csPc = "returned"
    /\ csProvider = "RewriterStrategy"
    /\ csResult = "session"

\* C7: the active provider is always one of the three providers of the
\* registry.
ActiveProviderIsRegistered ==
    currentStrategy \in Providers

\* no language-model factory, no Writer and no Rewriter namespace
NoCapability(w) == ~HasFactory(w) /\ ~w.Writer /\ ~w.Rewriter

AllMissing(rep) ==
    /\ rep.promptAPI = "missing"
    /\ rep.writerAPI = "missing"
    /\ rep.rewriterAPI = "missing"

\* C8: a getDiagnostics call made when every capability namespace is absent
\* returns at once, with the prompt, writer and rewriter fields all 'missing'.
AllAbsentAllMissing ==
    [][(GetDiagnosticsCall /\ NoCapability(window))
          => (gdPc' = "returned" /\ AllMissing(report'))]_vars

AllAbsentWitness ==
    /\ gdPc = "returned"
    /\ NoCapability(window)
    /\ AllMissing(report)

\* the value a diagnostics field may hold on return, given the namespace of
\* its own capability and what that capability's native check does: 'missing'
\* when the namespace was absent when read (a namespace never disappears),
\* otherwise the mapped result of its own check
FieldValues(present, outcome) ==
    IF ~present THEN {"missing"}
    ELSE {"missing"} \cup
         CASE outcome = "absent" -> {"available"}
           [] outcome = "throw" -> {"error"}
           [] outcome = "hang" -> {}
           [] OTHER -> {DiagStatus(outcome)}

\* C9: getDiagnostics never ends in an exception, and on return every
\* capability field depends on its own capability only: it is 'error' only
\* if its own check threw, and it holds the value of its own check whatever
\* the checks of the other two capabilities did.
DiagnosticsFieldsIndependent ==
    /\ gdPc \in {"idle", "awaitPrompt", "awaitWriter", "awaitRewriter",
                 "returned"}
    /\ gdPc = "returned" =>
          /\ report.promptAPI
                 \in FieldValues(HasFactory(window), host.capabilities)
          /\ report.writerAPI \in FieldValues(window.Writer, host.writer)
          /\ report.rewriterAPI
                 \in FieldValues(window.Rewriter, host.rewriter)

ThrowingCheckWitness ==
    /\ gdPc = "returned"
    /\ host.capabilities = "throw"
    /\ report.promptAPI = "error"
    /\ host.writer = "after-download"
    /\ report.writerAPI = "after-download"
    /\ host.rewriter = "readily"
    /\ report.rewriterAPI = "available"

\* the host exposes the general language-model capability and no dedicated
\* Writer or Rewriter
OnlyGeneral(w) == HasFactory(w) /\ ~w.Writer /\ ~w.Rewriter

\* C10: when the host exposes only the general capability, createSession with
\* the Writer strategy active goes on to construct a session instead of
\* failing, and a getDiagnostics call that returns reports the writer field
\* as 'simulated'.
WriterSimulatedWhenOnlyGeneral ==
    [][OnlyGeneral(window) =>
          /\ (CreateSessionCall("cmd") /\ currentStrategy = "WriterStrategy")
                 => csPc' = "awaiting"
          /\ (gdPc # "returned" /\ gdPc' = "returned")
                 => report'.writerAPI = "simulated"]_vars

\* the namespace a provider constructs its sessions from
NamespacePresent(provider, w) ==
    CASE provider = "ChatStrategy" -> HasFactory(w)
      [] provider = "WriterStrategy" -> w.Writer
      [] provider = "RewriterStrategy" -> w.Rewriter
      [] OTHER -> FALSE

\* the provider each missing-capability error names
ProviderOfError ==
    [AI_FLAGS_MISSING |-> "ChatStrategy",
     WRITER_API_MISSING |-> "WriterStrategy",
     REWRITER_API_MISSING |-> "RewriterStrategy"]

UnavailableStatuses == {"no", "unavailable"}

\* C13: when checkAvailability returns while the namespace of the active
\* capability is absent, or because the native availability check threw, its
\* result is the unavailable status.
FailuresBecomeUnavailable ==
    [][(caPc # "returned" /\ caPc' = "returned"
          /\ \/ ~NamespacePresent(currentStrategy, window)
             \/ (caPc = "awaiting" /\ host.availability = "throw"))
          => caResult' \in UnavailableStatuses]_vars

\* C14: when the caller gives a progress observer in the options, every
\* downloadprogress event the host emits during the construction reaches
\* that observer with its (loaded, total) values.
ProgressReachesObserver ==
    csArgs.monitor => observed = emitted

\* C17: a getDiagnostics call that awaits a native check eventually returns,
\* also when that check never settles.
GetDiagnosticsAlwaysReturns ==
    (gdPc \in {"awaitPrompt", "awaitWriter", "awaitRewriter"})
        ~> (gdPc = "returned")

\* C18: with the Writer or Rewriter strategy active, the result of
\* checkAvailability is that of the writer or rewriter namespace: the
\* unavailable status when it is absent, the status of its own availability
\* check when it is present.
ProbesActiveCapability ==
    [][(caPc # "returned" /\ caPc' = "returned")
          => /\ currentStrategy = "WriterStrategy"
                 => caResult' = IF window.Writer THEN host.writer ELSE "no"
             /\ currentStrategy = "RewriterStrategy"
                 => caResult' = IF window.Rewriter THEN host.rewriter
                                ELSE "no"]_vars

\* C19: a createSession call binds the provider that is active when it is
\* made; setStrategy calls while the host constructs the session do not
\* change it, and the session returned is the one built by that provider.
InFlightCreationKeepsProvider ==
    [][/\ CreateSessionCall("cmd") => csProvider' = currentStrategy
       /\ csProvider' # csProvider => CreateSessionCall("cmd")
       /\ (csPc = "awaiting" /\ csPc' = "returned")
              => csSession' = csProvider]_vars

InFlightWitness ==
    /\ csPc = "returned"
    /\ csProvider = "WriterStrategy"
    /\ csSession = "WriterStrategy"
    /\ currentStrategy = "RewriterStrategy"
    /\ setStrategyArg = "rewriter"

\* C16: when the host raises mid-stream after at least one chunk, the
\* container shows the text accumulated so far, as it was shown before, with
\* the error annotation after it.
MidStreamErrorKeepsText ==
    (glPc = "error" /\ delivered # <<>>)
        => container.parts =
               <<IF marked THEN Rendered(fullResponse)
                 ELSE Plain(fullResponse), ErrorAnnotation>>

MidStreamErrorWitness ==
    /\ glPc = "error"
    /\ Len(delivered) = 2
    /\ fullResponse = delivered[1] \o delivered[2]
    /\ delivered[1] # <<>>
    /\ delivered[2] # <<>>
    /\ marked


\* init has taken the result of the availability check
InitPastCheck == pc["init"] \notin {"start", "checking"}

\* C11: when the startup availability check reports 'after-download', init
\* treats it like immediate readiness: appReady is true, the landing state is
\* 'ready', the listeners are set up and no diagnostics are collected; and a
\* command that then reaches runGenerativeLoop without a session requests one
\* from the Switchboard.
AfterDownloadIsAcceptable ==
    /\ [](caResult = "after-download" /\ InitPastCheck
             => /\ appReady
                /\ landingState = "ready"
                /\ listeners
                /\ gdPc = "idle"
                /\ report = NoReport)
    /\ [][caResult = "after-download" /\ pc["cmd"] = "cmd_saving"
              /\ pc'["cmd"] # "cmd_saving" /\ currentSession = 0
             => csPc' = "awaiting" /\ pc'["cmd"] = "gl_creating"]_vars

\* after 'after-download', a command has requested a session and got it
AfterDownloadWitness ==
    /\ caResult = "after-download"
    /\ appReady
    /\ landingState = "ready"
    /\ pc["cmd"] = "gl_streaming"
    /\ currentSession # 0

\* C15: every session the controller has obtained and no longer refers to has
\* been destroyed.
DiscardedSessionsDestroyed ==
    \A i \in 1..Len(sessions) : i # currentSession => sessions[i].destroyed

\* C20: no step of the controller calls setStrategy while a createSession
\* call is awaiting the host.
NoSetStrategyDuringCreation ==
    [][csPc = "awaiting"
          => ~(\/ ApiModeSaved
               \/ \E p \in Procs : loc[p].got # NoProject /\ LoadProjectGot(p))]_vars


\* a capability namespace the poll looks for is in the host
NamespaceInHost == window.ai # "absent" \/ window.LanguageModel

\* C21: the polling loop of checkAvailability makes at most PollAttempts
\* attempts, makes no further attempt once window.ai or window.LanguageModel
\* is present, and when it has ended with the language-model factory and its
\* availability method present the native check is invoked.
PollEndsWhenNamespacePresent ==
    [][/\ attempts' > attempts
           => attempts < PollAttempts /\ ~NamespaceInHost
       /\ (caPc = "polling" /\ caPc' # "polling" /\ HasFactory(window)
               /\ host.availability # "absent")
           => caPc' = "awaiting"]_vars

\* C22: when init finishes after an availability status that is not
\* acceptable, appReady is false and the welcome screen is the visible view,
\* in landing state 'setup' with the diagnostics report.
UnavailableEndsInSetupView ==
    [][(pc["init"] # "done" /\ pc'["init"] = "done"
            /\ caResult \notin AcceptableStatuses)
          => /\ ~appReady'
             /\ view' = "welcome"
             /\ landingState' = "setup"
             /\ landingReport' # "none"]_vars

\* a step in which the command handler calls aiSwitchboard.createSession
CommandCallsCreateSession ==
    /\ pc["cmd"] \notin {"gl_creating", "rw_creating"}
    /\ pc'["cmd"] \in {"gl_creating", "rw_creating"}

\* C27: whenever the command handler calls createSession, the active provider
\* is the one registered for the apiMode of the current project.
CreateSessionUsesProjectMode ==
    [][CommandCallsCreateSession
          => currentStrategy = strategies[currentProject.apiMode]]_vars

\* a command starts to use the cached session: the stream or the rewrite
SessionServesCommand ==
    /\ pc["cmd"] \notin {"gl_streaming", "rw_rewriting"}
    /\ pc'["cmd"] \in {"gl_streaming", "rw_rewriting"}

\* C24: whenever a command is served by the cached session, under any
\* interleaving of commands with API-mode changes and project loads, that
\* session was created by the provider registered for the current project's
\* apiMode.
CachedSessionMatchesMode ==
    [][SessionServesCommand =>
          sessions'[currentSession'].provider
              = strategies[currentProject'.apiMode]]_vars

\* the last entry of a history
LastEntry(history) == history[Len(history)]

\* the user entry of the command in progress
UserEntry(input) == [role |-> "user", content |-> input]

Quiescent == \A p \in Procs : pc[p] = IF p = "init" THEN "done" ELSE "idle"

\* C30: in every quiescent state after init, after any sequence of project
\* creations, selections and deletions, the store holds at least one project
\* and currentProject is a project that is present in the store.
QuiescentCurrentProjectStored ==
    Quiescent => /\ Stored(store) # {}
                 /\ currentProject # NoProject
                 /\ currentProject.id \in Stored(store)

\* the stream of the command has been consumed to its end and the handler
\* goes on
StreamCompletes ==
    /\ pc["cmd"] = "gl_streaming"
    /\ glPc = "done"
    /\ pc'["cmd"] # "gl_streaming"

\* history ends with the prompt followed by the reply
EndsWithExchange(history, prompt, reply) ==
    /\ Len(history) >= 2
    /\ history[Len(history) - 1] = UserEntry(prompt)
    /\ history[Len(history)] = [role |-> "model", content |-> reply]

\* C25: when the stream of a command has been consumed, the reply is
\* appended to the stored history of the project in which the prompt was
\* issued, right after that prompt, also when a project was selected or
\* deleted in the meantime.
ReplyGoesToPromptProject ==
    [][StreamCompletes =>
          \E id \in Stored(store') :
             /\ store'[id] # store[id]
             /\ EndsWithExchange(store'[id].history, loc["cmd"].input,
                                 fullResponse)]_vars

\* a step of a command with the empty text as input, issued after init has
\* finished
EmptyCommandStep ==
    /\ pc["init"] = "done"
    /\ pc'["cmd"] # pc["cmd"]
    /\ pc["cmd"] = "idle" => loc'["cmd"].input = <<>>
    /\ pc["cmd"] # "idle" => loc["cmd"].input = <<>>

\* C29: a command issued with empty input changes nothing: no session is
\* created, the cached session and the history of the project stay as they
\* are and nothing is saved to storage.
EmptyCommandChangesNothing ==
    [][EmptyCommandStep =>
          /\ sessions' = sessions
          /\ currentSession' = currentSession
          /\ calls' = calls
          /\ currentProject'.history = currentProject.history
          /\ store' = store]_vars

\* C26: while the configuration is unchanged, at most one session is created
\* however many commands are issued, also when a command is issued while an
\* earlier one is still awaiting the creation of the session.
AtMostOneSession == Len(sessions) <= 1

\* C23: once the settings handler has saved a new system prompt for the
\* current project and no command is in progress, no session created with
\* another prompt is cached, so that the next chat command creates a session
\* with the new prompt instead of reusing one created with the old one.
CachedSessionHasCurrentPrompt ==
    (/\ pc["cmd"] = "idle"
     /\ pc["settings"] = "idle"
     /\ currentProject # NoProject
     /\ currentSession # 0)
        => sessions[currentSession].systemPrompt
              = SessionPrompt(sessions[currentSession].provider,
                              currentProject.systemPrompt)

====
